---- MODULE Spec2Model ----
(***************************************************************************)
(* The signing-and-dispatch layer of the dYdX v3 python client:            *)
(*   dydx3/helpers/requests.py   request, send_request, response_to_error  *)
(*   dydx3/modules/private.py    Private (session, close, _private_request,*)
(*                               create_order, create_withdrawal,          *)
(*                               create_fast_withdrawal, sign)             *)
(*   dydx3/errors.py             DydxApiError                              *)
(*                                                                         *)
(* asyncio runs one coroutine at a time and switches only at an await, so  *)
(* the code between two awaits is one atomic action.  request() has two    *)
(* suspension points: the transport call (await send_request) and the read *)
(* of the response body (await response.json() / response.text()).         *)
(*                                                                         *)
(* Python values:  None is <<>> and a present value v is <<v>>; a str is a *)
(* TLA+ string or, where it is assembled from parts, the sequence of its   *)
(* parts; a dict is the sequence of its <<key, value>> items in insertion  *)
(* order.                                                                  *)
(***************************************************************************)
EXTENDS Integers, Sequences, FiniteSets, TLC

\* Number of request() invocations that may be in flight at once.
NumCalls == 2

Calls == 1..NumCalls

None == <<>>
Some(v) == <<v>>

VARIABLES
    sessions,   \* every aiohttp.ClientSession: "absent" (not created), "open", "closed"
    calls,      \* one record per invocation slot (a coroutine of the caller)
    client      \* the Private instance

vars == <<sessions, calls, client>>

----------------------------------------------------------------------------
(* Sessions *)

\* The session a caller of request() owns and passes in.
CallerSession == <<"caller", 0>>
\* The session Private.session creates lazily.
ClientSession == <<"client", 0>>
\* The session request() creates for call c when it is given none.
TempSession(c) == <<"temp", c>>

SessionIds == {CallerSession, ClientSession} \cup {TempSession(c) : c \in Calls}

\* aiohttp.ClientSession(...): a new, open session.
ClientSession_new(sess, s) == [sess EXCEPT ![s] = "open"]

\* ClientSession.close is a coroutine function (private.py awaits it): the
\* session is closed when the coroutine it returns is awaited ...
ClientSession_close_awaited(sess, s) == [sess EXCEPT ![s] = "closed"]

\* ... and a bare call `s.close()` only builds the coroutine object; its body
\* never runs and the session stays as it is.
ClientSession_close_unawaited(sess, s) == sess

----------------------------------------------------------------------------
(* HTTP responses, as the transport hands them to request() *)

Statuses == {200, 204, 404, 500}

\* Raw response texts: no body, a JSON object, and text that is not JSON.
EmptyBody == ""
JsonBody == "{\"a\": 1}"
TextBody == "Bad Gateway"
Bodies == {EmptyBody, JsonBody, TextBody}

ContentTypes == {"application/json", "text/html"}

\* content: the truth value of response.content (the session is duck-typed,
\* getattr(session, method), so the response is whatever the session returns;
\* aiohttp's StreamReader is always true).
Responses ==
    [status : Statuses, body : Bodies, ctype : ContentTypes, content : BOOLEAN]

NoResponse == [status |-> 0, body |-> "", ctype |-> "", content |-> FALSE]

\* Python values that request() can return or put in an error's msg.
PyNone == [type |-> "NoneType", val |-> "None"]
PyDict(text) == [type |-> "dict", val |-> text]
PyStr(text) == [type |-> "str", val |-> text]
Unset == [type |-> "unset", val |-> ""]
EmptyMapping == PyDict("{}")

\* The decimal digits of a non-negative integer, most significant first: str(n).
RECURSIVE str_int(_)
str_int(n) == IF n < 10 THEN <<n>> ELSE str_int(n \div 10) \o <<n % 10>>

\* str(response.status).startswith('2')
status_is_200(status) == status = 200
startswith_2(status) == str_int(status)[1] = 2

\* json.loads of a response text.
json_loads(body) ==
    IF body = JsonBody THEN [raises |-> "none", value |-> PyDict(body)]
    ELSE [raises |-> "ValueError", value |-> Unset]

\* await response.json(content_type=...) once the body has been read: the
\* content type is checked unless content_type is None, a blank body gives
\* None, anything else goes through json.loads.
response_json(resp, check_content_type) ==
    IF check_content_type /\ resp.ctype # "application/json"
    THEN [raises |-> "ContentTypeError", value |-> Unset]
    ELSE IF resp.body = EmptyBody THEN [raises |-> "none", value |-> PyNone]
    ELSE json_loads(resp.body)

\* await response.text()
response_text(resp) == PyStr(resp.body)

NoError == [kind |-> "none", status |-> 0, msg |-> Unset]

\* DydxApiError(response, status, msg)
DydxApiError(status, msg) == [kind |-> "DydxApiError", status |-> status, msg |-> msg]

\* Any other exception: it carries no status and no msg.
Raised(kind) == [kind |-> kind, status |-> 0, msg |-> Unset]

\* response_to_error without its try/except: the parse failure is raised.
response_to_error_unguarded(resp) ==
    LET parsed == response_json(resp, FALSE)
    IN  IF parsed.raises = "ValueError" THEN Raised("ValueError")
        ELSE DydxApiError(resp.status, parsed.value)

\* response_to_error(response), after the body has been read.
response_to_error(resp) ==
    LET parsed == response_json(resp, FALSE)
    IN  DydxApiError(resp.status,
                     IF parsed.raises = "ValueError" THEN response_text(resp)
                     ELSE parsed.value)

----------------------------------------------------------------------------
(* dydx3.helpers.request_helpers *)

\* Truth values of optional arguments: None, '' and 0 are all false.
bool_str(o) == o # None /\ o[1] # ""
bool_seq(o) == o # None /\ o[1] # <<>>
bool_int(o) == o # None /\ o[1] # 0

\* An ISO-8601 UTC timestamp is the sequence of its fields
\* <<year, month, day, hour, minute, second, millisecond>>; '' is <<>>.
\* Days between 1970-01-01 and a civil date, and back (proleptic Gregorian).
days_from_civil(y, m, d) ==
    LET yy == IF m <= 2 THEN y - 1 ELSE y
        era == yy \div 400
        yoe == yy - era * 400
        mp == IF m > 2 THEN m - 3 ELSE m + 9
        doy == (153 * mp + 2) \div 5 + d - 1
        doe == yoe * 365 + yoe \div 4 - yoe \div 100 + doy
    IN  era * 146097 + doe - 719468

civil_from_days(z) ==
    LET zz == z + 719468
        era == zz \div 146097
        doe == zz - era * 146097
        yoe == (doe - doe \div 1460 + doe \div 36524 - doe \div 146096) \div 365
        doy == doe - (365 * yoe + yoe \div 4 - yoe \div 100)
        mp == (5 * doy + 2) \div 153
        d == doy - (153 * mp + 2) \div 5 + 1
        m == IF mp < 10 THEN mp + 3 ELSE mp - 9
        y == yoe + era * 400 + (IF m <= 2 THEN 1 ELSE 0)
    IN  <<y, m, d>>

\* iso_to_epoch_seconds: UTC calendar conversion at second granularity.
iso_to_epoch_seconds(iso) ==
    days_from_civil(iso[1], iso[2], iso[3]) * 86400
        + iso[4] * 3600 + iso[5] * 60 + iso[6]

\* epoch_seconds_to_iso: the timestamp of that second, with no milliseconds.
epoch_seconds_to_iso(epoch) ==
    LET rem == epoch % 86400
    IN  civil_from_days(epoch \div 86400)
            \o <<rem \div 3600, (rem % 3600) \div 60, rem % 60, 0>>

\* remove_nones: the dict without its None-valued items, order kept.
IsNotNone(item) == item[2] # None
remove_nones(d) == SelectSeq(d, IsNotNone)

\* One "key<sep>value" item and the items joined by a separator.
RECURSIVE join_items(_, _, _)
join_items(d, item_sep, key_sep) ==
    IF d = <<>> THEN <<>>
    ELSE <<d[1][1], key_sep>> \o (IF d[1][2] = None THEN <<"null">> ELSE d[1][2])
            \o (IF Len(d) > 1 THEN <<item_sep>> ELSE <<>>)
            \o join_items(Tail(d), item_sep, key_sep)

\* json_stringify: JSON with no whitespace, json.dumps(data, separators=(',', ':')).
json_stringify(d) == <<"{">> \o join_items(d, ",", ":") \o <<"}">>

\* json.dumps with its default separators, ', ' and ': '.
json_dumps(d) == <<"{">> \o join_items(d, ", ", ": ") \o <<"}">>

\* str.upper() of the verbs.
upper(method) ==
    CASE method = "get" -> "GET"
      [] method = "post" -> "POST"
      [] method = "put" -> "PUT"
      [] method = "delete" -> "DELETE"
      [] OTHER -> method

----------------------------------------------------------------------------
(* request(uri, method, session, headers, data_values, api_timeout) *)

NoArgs ==
    [expiration |-> None, expiration_epoch_seconds |-> None, signature |-> None,
     client_id |-> None, to_address |-> ""]

\* pc: "idle", "sending" (at await send_request), "reading" (at await
\* response.json()), "done".  op .. signed_data belong to the Private method
\* that made the call; session .. close_called to request().
IdleCall ==
    [pc |-> "idle", op |-> "none", args |-> NoArgs,
     expiration |-> <<>>, signer_calls |-> <<>>, fact_calls |-> <<>>,
     now_iso_string |-> "", request_path |-> <<>>,
     message_string |-> <<>>, signed_data |-> <<>>,
     session |-> None, temp_session |-> None, session_closed |-> FALSE,
     method |-> "", uri |-> <<>>, headers |-> None, data_values |-> <<>>, data |-> <<>>,
     sends |-> 0, resp |-> NoResponse,
     outcome |-> "none", error |-> NoError, result |-> Unset,
     close_called |-> FALSE]

\* Lines 31-39: with no session given, request() creates one of its own and
\* remembers it in temp_session.
temp_session_for(c, session) == IF session = None THEN TempSession(c) ELSE None

session_for(c, session) == IF session = None THEN TempSession(c) ELSE session

\* Lines 42-51: one call of send_request.
sends_twice(call) == call.sends + 2
sends_after_dispatch(call) == call.sends + 1

\* Lines 62-65, the finally block: `if temp_session: temp_session.close()`.
release_awaits_session(sess, call) ==
    ClientSession_close_awaited(sess, call.session)

release(sess, call) ==
    IF call.temp_session # None
    THEN ClientSession_close_unawaited(sess, call.temp_session)
    ELSE sess

\* Lines 47-49: the body handed to the transport.
sent_data(data_values) == json_dumps(remove_nones(data_values))

\* request() is entered and runs up to `await send_request(...)`; `call` is
\* the slot's record as the calling method left it, `sess` the sessions then.
request_enter(c, call, sess, uri, method, session, headers, data_values) ==
    /\ calls' = [calls EXCEPT ![c] =
            [call EXCEPT !.pc = "sending",
                         !.session = session_for(c, session),
                         !.temp_session = temp_session_for(c, session),
                         !.session_closed =
                             (session # None /\ sess[session] = "closed"),
                         !.uri = uri, !.method = method, !.headers = headers,
                         !.data_values = data_values,
                         !.data = sent_data(data_values),
                         !.sends = sends_after_dispatch(call)]]
    /\ sessions' = IF session = None
                   THEN ClientSession_new(sess, TempSession(c))
                   ELSE sess

\* request() leaves, by return or by raise, through the finally block.
request_exit(c, resp, outcome, error, result) ==
    /\ calls' = [calls EXCEPT ![c] =
            [@ EXCEPT !.pc = "done", !.resp = resp, !.outcome = outcome,
                      !.error = error, !.result = result,
                      !.close_called = (calls[c].temp_session # None)]]
    /\ sessions' = release(sessions, calls[c])

\* A direct caller invokes request() with a session of its own or with none.
Request(c, session) ==
    /\ calls[c].pc = "idle"
    /\ request_enter(c, [IdleCall EXCEPT !.op = "request"], sessions,
                     <<"https://api.dydx.exchange", "/v3", "/", "markets">>,
                     "get", session, None, <<>>)
    /\ UNCHANGED client

\* The transport call returns a response (status line and headers).
\* Lines 53-60: a non-2xx status goes on to response_to_error and a 2xx one
\* with a true response.content to response.json(), both of which await the
\* body; a 2xx one with a false response.content returns the str '{}'.
Respond(c, resp) ==
    /\ calls[c].pc = "sending"
    /\ sessions[calls[c].session] = "open"
    /\ IF startswith_2(resp.status) /\ ~resp.content
       THEN request_exit(c, resp, "returned", NoError, PyStr("{}"))
       ELSE /\ calls' = [calls EXCEPT ![c] = [@ EXCEPT !.pc = "reading", !.resp = resp]]
            /\ UNCHANGED sessions
    /\ UNCHANGED client

\* The body has been read: response_to_error's DydxApiError is raised for a
\* non-2xx status, and response.json() returns or raises for a 2xx one.
BodyRead(c) ==
    /\ calls[c].pc = "reading"
    /\ LET resp == calls[c].resp
           parsed == response_json(resp, TRUE)
       IN  IF ~startswith_2(resp.status)
           THEN request_exit(c, resp, "raised", response_to_error(resp), Unset)
           ELSE IF parsed.raises = "none"
           THEN request_exit(c, resp, "returned", NoError, parsed.value)
           ELSE request_exit(c, resp, "raised", Raised(parsed.raises), Unset)
    /\ UNCHANGED client

\* The transport raises, while sending or while the body is read (a
\* connection error, a timeout, a session that is closed).
TransportRaises(c) ==
    /\ calls[c].pc \in {"sending", "reading"}
    /\ request_exit(c, calls[c].resp, "raised", Raised("ClientError"), Unset)
    /\ UNCHANGED client

\* The task running the call is cancelled at one of its awaits.
Cancel(c) ==
    /\ calls[c].pc \in {"sending", "reading"}
    /\ request_exit(c, calls[c].resp, "raised", Raised("CancelledError"), Unset)
    /\ UNCHANGED client

\* The caller has taken the outcome; the slot is free for its next call, and
\* nothing refers to the session request() created for this one any more.
Collect(c) ==
    /\ calls[c].pc = "done"
    /\ calls' = [calls EXCEPT ![c] = IdleCall]
    /\ sessions' = [sessions EXCEPT ![TempSession(c)] = "absent"]
    /\ UNCHANGED client

----------------------------------------------------------------------------
(* Private: the client of the private API *)

StarkPrivateKeys == {None, Some("0x1f2e3d")}

Host == "https://api.dydx.exchange"

\* The external signing primitive's result, Signable*.sign(stark_private_key).
StarkSignature == "stark-signature"

\* Private.session: the session is created on the first access and kept.
session_created_by_access(self) == self._session = None

\* The API credentials are a dict of 'key', 'secret' and 'passphrase'.
has_key(d, key) == \E i \in DOMAIN d : d[i][1] = key

\* d[key], for a key that d has.
item(d, key) == d[CHOOSE i \in DOMAIN d : d[i][1] = key][2]

\* The secret, base64 of 'api-secret', and the same with its padding cut off.
Secret == "YXBpLXNlY3JldA=="
SecretNoPadding == "YXBpLXNlY3JldA"

\* A decoder that accepts a secret whatever its padding.
urlsafe_b64decode_padded(secret) == [raises |-> "none", value |-> "api-secret"]

\* base64.urlsafe_b64decode(secret.encode('utf-8')): binascii.Error on
\* incorrect padding.
urlsafe_b64decode(secret) ==
    IF secret = Secret THEN [raises |-> "none", value |-> "api-secret"]
    ELSE [raises |-> "binascii.Error", value |-> ""]

\* Private.sign: the string that is authenticated.  `data` is a dict, empty
\* when it has no items.
sign_path_first(request_path, method, iso_timestamp, data) ==
    request_path \o <<iso_timestamp, method>>
        \o (IF data # <<>> THEN json_stringify(data) ELSE <<>>)

sign(request_path, method, iso_timestamp, data) ==
    <<iso_timestamp, method>> \o request_path
        \o (IF data # <<>> THEN json_stringify(data) ELSE <<>>)

\* The HMAC-SHA256 of a message under the API secret, base64-encoded.
hmac_digest(message) ==
    [hmac_sha256 |-> message,
     secret |-> urlsafe_b64decode(item(client.api_key_credentials[1], "secret")[1]).value]

\* What lines 77-88 raise on the client's credentials, in their order: sign
\* subscripts the credentials with 'secret' and decodes it, then the headers
\* subscript them with 'key' and with 'passphrase'.
credentials_error(self) ==
    LET creds == self.api_key_credentials
    IN  IF creds = None THEN "TypeError"
        ELSE IF ~has_key(creds[1], "secret") THEN "KeyError"
        ELSE IF urlsafe_b64decode(item(creds[1], "secret")[1]).raises # "none"
             THEN urlsafe_b64decode(item(creds[1], "secret")[1]).raises
        ELSE IF ~has_key(creds[1], "key") THEN "KeyError"
        ELSE IF ~has_key(creds[1], "passphrase") THEN "KeyError"
        ELSE "none"

\* _private_request, lines 79 and 81: what is handed to sign().
signed_method(method) == upper(method)

signed_body_with_nones(data) == data
signed_body(data) == remove_nones(data)

\* A Private method raises before _private_request is reached.
private_raise(c, call, kind) ==
    /\ calls' = [calls EXCEPT ![c] =
            [call EXCEPT !.pc = "done", !.outcome = "raised", !.error = Raised(kind)]]
    /\ UNCHANGED <<sessions, client>>

\* A header timestamp taken from a later reading of the clock.
timestamp_header_regenerated(now_iso_string) == "2023-01-01T00:00:02.000Z"

\* 'DYDX-TIMESTAMP': now_iso_string
timestamp_header(now_iso_string) == now_iso_string

\* _private_request(method, endpoint, data), up to request()'s first await.
_private_request(c, call, method, endpoint, data, now_iso_string) ==
    LET request_path == <<"/v3", "/">> \o endpoint
        message == sign(request_path, signed_method(method), now_iso_string,
                        signed_body(data))
        headers == Some([DYDX_SIGNATURE |-> hmac_digest(message),
                         DYDX_API_KEY |-> item(client.api_key_credentials[1], "key"),
                         DYDX_TIMESTAMP |-> timestamp_header(now_iso_string),
                         DYDX_PASSPHRASE |->
                             item(client.api_key_credentials[1], "passphrase")])
        sess == IF session_created_by_access(client)
                THEN ClientSession_new(sessions, ClientSession)
                ELSE sessions
    IN  IF credentials_error(client) # "none"
        THEN private_raise(c, call, credentials_error(client))
        ELSE /\ client' = [client EXCEPT
                    !._session = ClientSession,
                    !.sessions_created =
                        IF session_created_by_access(client) THEN @ + 1 ELSE @]
             /\ request_enter(c, [call EXCEPT !.now_iso_string = now_iso_string,
                                              !.request_path = request_path,
                                              !.message_string = message,
                                              !.signed_data = signed_body(data)],
                              sess, <<Host>> \o request_path, method, ClientSession,
                              headers, data)

\* _get / _post.  The callers of _get modelled here pass no params, for which
\* generate_query_path(endpoint, {}) is the endpoint itself.
_get(c, call, endpoint, now) == _private_request(c, call, "get", endpoint, <<>>, now)
_post(c, call, endpoint, data, now) == _private_request(c, call, "post", endpoint, data, now)

\* generate_query_path(url, params): the url, then '?' and the key=value
\* items of the params that are not None, joined by '&'; the url alone when
\* there is none.
RECURSIVE query_items(_)
query_items(params) ==
    IF params = <<>> THEN <<>>
    ELSE <<params[1][1], "=", params[1][2][1]>>
            \o (IF Len(params) > 1 THEN <<"&">> ELSE <<>>)
            \o query_items(Tail(params))

generate_query_path(url, params) ==
    IF remove_nones(params) = <<>> THEN url
    ELSE url \o <<"?">> \o query_items(remove_nones(params))

_delete(c, call, endpoint, params, now) ==
    _private_request(c, call, "delete", generate_query_path(endpoint, params), <<>>, now)

\* cancel_all_orders(market=None): `params = {'market': market} if market else {}`
cancel_all_orders(c, market, now) ==
    /\ calls[c].pc = "idle"
    /\ _delete(c, [IdleCall EXCEPT !.op = "cancel_all_orders"], <<"orders">>,
               IF bool_str(market) THEN << <<"market", market>> >> ELSE <<>>, now)

\* get_api_keys: self._get('api-keys', {})
get_api_keys(c, now) ==
    /\ calls[c].pc = "idle"
    /\ _get(c, [IdleCall EXCEPT !.op = "get_api_keys"], <<"api-keys">>, now)

\* Private.close: `if self._session: await self._session.close()`; closing a
\* session that is closed already changes nothing.
session_reset_on_close(self) == None

\* close() leaves self._session as it is.
session_after_close(self) == self._session

close ==
    /\ client._session # None
    /\ sessions[client._session] = "open"
    /\ sessions' = ClientSession_close_awaited(sessions, client._session)
    /\ client' = [client EXCEPT !._session = session_after_close(client)]
    /\ UNCHANGED calls

(* The three signable actions: create_order (lines 557-611),
   create_withdrawal (814-849) and create_fast_withdrawal (912-965) run the
   same steps on their arguments `a`. *)

\* `if bool(expiration) == bool(expiration_epoch_seconds): raise ValueError`
expiration_check_fails(a) ==
    bool_seq(a.expiration) = bool_int(a.expiration_epoch_seconds)

\* `expiration = expiration or epoch_seconds_to_iso(expiration_epoch_seconds)`
expiration_or(a) ==
    IF bool_seq(a.expiration) THEN a.expiration[1]
    ELSE epoch_seconds_to_iso(a.expiration_epoch_seconds[1])

\* `expiration_epoch_seconds = expiration_epoch_seconds or iso_to_epoch_seconds(expiration)`
expiration_epoch_seconds_or(a) ==
    IF bool_int(a.expiration_epoch_seconds) THEN a.expiration_epoch_seconds[1]
    ELSE iso_to_epoch_seconds(expiration_or(a))

\* `client_id = client_id or random_client_id()`
client_id_or(a, random_client_id) ==
    IF bool_str(a.client_id) THEN a.client_id[1] ELSE random_client_id

\* Signing whether or not a signature was supplied.
signature_always_missing(a) == TRUE

\* `if not signature:`
signature_missing(a) == ~bool_str(a.signature)

\* `if not self.stark_private_key: raise Exception`
stark_private_key_unchecked(self) == FALSE
stark_private_key_missing(self) == ~bool_str(self.stark_private_key)

\* str.lower() of an address.
lower(address) == IF address = "0xAbCdEf" THEN "0xabcdef" ELSE address

\* The dict each method posts.
order_body(a, expiration, client_id, signature) ==
    << <<"market", Some("BTC-USD")>>, <<"side", Some("BUY")>>,
       <<"type", Some("LIMIT")>>, <<"timeInForce", Some("GTT")>>,
       <<"size", Some("0.1")>>, <<"price", Some("30000")>>,
       <<"limitFee", Some("0.0015")>>, <<"expiration", Some(expiration)>>,
       <<"cancelId", None>>, <<"triggerPrice", None>>,
       <<"trailingPercent", None>>, <<"postOnly", Some("false")>>,
       <<"clientId", Some(client_id)>>, <<"signature", Some(signature)>>,
       <<"reduceOnly", None>> >>

withdrawal_body(a, expiration, client_id, signature) ==
    << <<"amount", Some("100")>>, <<"asset", Some("USDC")>>,
       <<"expiration", Some(expiration)>>, <<"clientId", Some(client_id)>>,
       <<"signature", Some(signature)>> >>

fast_withdrawal_body(a, expiration, client_id, signature) ==
    << <<"creditAsset", Some("USDC")>>, <<"creditAmount", Some("100")>>,
       <<"debitAmount", Some("101")>>, <<"slippageTolerance", None>>,
       <<"toAddress", Some(lower(a.to_address))>>, <<"lpPositionId", Some("2")>>,
       <<"expiration", Some(expiration)>>, <<"clientId", Some(client_id)>>,
       <<"signature", Some(signature)>> >>

\* What the method hands to the external signer: Signable*(...).sign(key).
signer_call(signable, a, client_id) ==
    [signable |-> signable,
     expiration_epoch_seconds |-> expiration_epoch_seconds_or(a),
     client_id |-> client_id,
     private_key |-> client.stark_private_key]

\* get_transfer_erc20_fact(recipient=to_address, ..., salt=nonce_from_client_id(client_id))
fact_call(a, client_id) == [recipient |-> a.to_address, salt |-> client_id]

\* The steps up to the signature: the call's record and the signature to post.
signed_call(op, signable, a, client_id, with_fact) ==
    LET signs == signature_missing(a)
    IN  [IdleCall EXCEPT
            !.op = op, !.args = a, !.expiration = expiration_or(a),
            !.fact_calls = IF signs /\ with_fact
                           THEN <<fact_call(a, client_id)>> ELSE <<>>,
            !.signer_calls = IF signs
                             THEN <<signer_call(signable, a, client_id)>> ELSE <<>>]

signature_or(a) == IF signature_missing(a) THEN StarkSignature ELSE a.signature[1]

raises_before_signing(a) ==
    IF expiration_check_fails(a) THEN "ValueError"
    ELSE IF signature_missing(a) /\ stark_private_key_missing(client) THEN "Exception"
    ELSE "none"

create_order(c, a, random_client_id, now) ==
    LET client_id == client_id_or(a, random_client_id)
        failed == [IdleCall EXCEPT !.op = "create_order", !.args = a]
    IN  /\ calls[c].pc = "idle"
        /\ IF raises_before_signing(a) # "none"
           THEN private_raise(c, failed, raises_before_signing(a))
           ELSE _post(c, signed_call("create_order", "SignableOrder", a, client_id, FALSE),
                      <<"orders">>,
                      order_body(a, expiration_or(a), client_id, signature_or(a)), now)

create_withdrawal(c, a, random_client_id, now) ==
    LET client_id == client_id_or(a, random_client_id)
        failed == [IdleCall EXCEPT !.op = "create_withdrawal", !.args = a]
    IN  /\ calls[c].pc = "idle"
        /\ IF raises_before_signing(a) # "none"
           THEN private_raise(c, failed, raises_before_signing(a))
           ELSE _post(c, signed_call("create_withdrawal", "SignableWithdrawal", a,
                                     client_id, FALSE),
                      <<"withdrawals">>,
                      withdrawal_body(a, expiration_or(a), client_id, signature_or(a)), now)

create_fast_withdrawal(c, a, random_client_id, now) ==
    LET client_id == client_id_or(a, random_client_id)
        failed == [IdleCall EXCEPT !.op = "create_fast_withdrawal", !.args = a]
    IN  /\ calls[c].pc = "idle"
        /\ IF raises_before_signing(a) # "none"
           THEN private_raise(c, failed, raises_before_signing(a))
           ELSE _post(c, signed_call("create_fast_withdrawal",
                                     "SignableConditionalTransfer", a, client_id, TRUE),
                      <<"fast-withdrawals">>,
                      fast_withdrawal_body(a, expiration_or(a), client_id,
                                           signature_or(a)), now)

\* The credentials a client is constructed with: the three items, the
\* secret undecodable, one item absent, and no credentials at all.
Credentials(secret) ==
    << <<"key", Some("api-key")>>, <<"secret", Some(secret)>>,
       <<"passphrase", Some("api-passphrase")>> >>

Without(d, key) == SelectSeq(d, LAMBDA kv : kv[1] # key)

ApiKeyCredentials ==
    {None, Some(Credentials(Secret)), Some(Credentials(SecretNoPadding))}
        \cup {Some(Without(Credentials(Secret), k)) :
                    k \in {"key", "secret", "passphrase"}}

\* The arguments the callers pass.
Markets == {None, Some("BTC-USD")}
IsoA == <<2031, 3, 14, 15, 9, 26, 0>>
Expirations == {None, Some(<<>>), Some(IsoA)}
EpochSeconds == {None, Some(0), Some(1924991999)}
Signatures == {None, Some(""), Some("0x05ab")}
ClientIds == {None, Some("order-17")}
RandomClientIds == {"4815162342"}
Nows == {"2023-01-01T00:00:00.000Z", "2023-01-01T00:00:01.000Z"}

OrderArgs ==
    [expiration : Expirations, expiration_epoch_seconds : EpochSeconds,
     signature : Signatures, client_id : ClientIds, to_address : {""}]

WithdrawalArgs ==
    [expiration : Expirations, expiration_epoch_seconds : EpochSeconds,
     signature : Signatures, client_id : ClientIds,
     to_address : {"0xAbCdEf", "0xabcdef"}]

----------------------------------------------------------------------------
(* Specifications *)

Init ==
    /\ sessions = [s \in SessionIds |-> IF s = CallerSession THEN "open" ELSE "absent"]
    /\ calls = [c \in Calls |-> IdleCall]
    /\ client \in [_session : {None}, sessions_created : {0},
                    stark_private_key : StarkPrivateKeys,
                    api_key_credentials : ApiKeyCredentials]

\* Concurrent request() invocations that share the caller's session or use
\* none; the responses are a 2xx one and a non-2xx one.
SharedResponses ==
    {[status |-> 200, body |-> JsonBody, ctype |-> "application/json", content |-> TRUE],
     [status |-> 500, body |-> TextBody, ctype |-> "text/html", content |-> TRUE]}

NextShared ==
    \E c \in Calls :
        \/ \E s \in {None, CallerSession} : Request(c, s)
        \/ \E resp \in SharedResponses : Respond(c, resp)
        \/ BodyRead(c)
        \/ TransportRaises(c)
        \/ Cancel(c)
        \/ Collect(c)

SpecShared == Init /\ [][NextShared]_vars

\* One invocation at a time, over every response.
OthersIdle(c) == \A d \in Calls \ {c} : calls[d].pc = "idle"

Next ==
    \E c \in Calls :
        \/ \E s \in {None, CallerSession} : OthersIdle(c) /\ Request(c, s)
        \/ \E resp \in Responses : Respond(c, resp)
        \/ BodyRead(c)
        \/ TransportRaises(c)
        \/ Cancel(c)
        \/ Collect(c)

Spec == Init /\ [][Next]_vars

\* The Private client, one method call at a time.
NextPrivate ==
    \/ \E c \in Calls, now \in Nows :
        \/ OthersIdle(c) /\ get_api_keys(c, now)
        \/ \E market \in Markets : OthersIdle(c) /\ cancel_all_orders(c, market, now)
        \/ \E a \in OrderArgs, r \in RandomClientIds :
                OthersIdle(c) /\ create_order(c, a, r, now)
        \/ \E a \in WithdrawalArgs, r \in RandomClientIds :
                OthersIdle(c) /\ create_withdrawal(c, a, r, now)
        \/ \E a \in WithdrawalArgs, r \in RandomClientIds :
                OthersIdle(c) /\ create_fast_withdrawal(c, a, r, now)
    \/ close
    \/ \E c \in Calls :
        \/ \E resp \in SharedResponses : Respond(c, resp)
        \/ BodyRead(c)
        \/ TransportRaises(c)
        \/ Cancel(c)
        \/ Collect(c)

SpecPrivate == Init /\ [][NextPrivate]_vars

----------------------------------------------------------------------------
(* Claims *)

Done(c) == calls[c].pc = "done"
InFlight(c) == calls[c].pc \in {"sending", "reading"}

\* The exceptions of the transport and of cancellation: no response was
\* classified when one of these ends the call.
Interrupted(c) == calls[c].error.kind \in {"ClientError", "CancelledError"}

\* C1: request() never closes a session its caller supplied: whatever calls
\* share the caller's session, in flight together or finished with any outcome,
\* that session is open, so the calls still in flight on it can complete.
C1_CallerSessionNeverClosed ==
    /\ sessions[CallerSession] = "open"
    /\ \A c \in Calls :
          calls[c].session = CallerSession =>
              calls[c].temp_session = None /\ ~calls[c].close_called

C1_Witness ==
    \E c, d \in Calls :
        /\ c # d
        /\ calls[c].session = CallerSession /\ calls[d].session = CallerSession
        /\ Done(c) /\ calls[c].error.kind = "CancelledError"
        /\ InFlight(d)

\* C2: a session request() created itself (session=None) is closed by the
\* time request() returns or raises, on every exit path.
C2_OwnSessionClosedOnExit ==
    \A c \in Calls :
        Done(c) /\ calls[c].temp_session # None =>
            sessions[calls[c].temp_session] = "closed"

\* The leading decimal digit of a status is 2.
LeadingDigitIs2(status) == \E k \in 0..9 : status \div (10 ^ k) = 2

\* A call that got a response and whose body was read (or needed no read).
Classified(c) == Done(c) /\ calls[c].resp # NoResponse /\ ~Interrupted(c)

\* The body as an error's msg: the parsed JSON, None for a blank body, and
\* the raw text when the body is not JSON.
BodyAsMsg(resp) ==
    IF resp.body = JsonBody THEN PyDict(resp.body)
    ELSE IF resp.body = EmptyBody THEN PyNone
    ELSE PyStr(resp.body)

ApiErrorRaised(c) ==
    /\ calls[c].outcome = "raised"
    /\ calls[c].error.kind = "DydxApiError"
    /\ calls[c].error.status = calls[c].resp.status
    /\ calls[c].error.msg = BodyAsMsg(calls[c].resp)

\* C3 as stated: request() returns normally if and only if the status's
\* leading digit is 2, and every other status raises a DydxApiError carrying
\* the status and the body.
C3_ReturnsIffStatus2xx ==
    \A c \in Calls :
        Classified(c) =>
            /\ (calls[c].outcome = "returned") <=> LeadingDigitIs2(calls[c].resp.status)
            /\ ~LeadingDigitIs2(calls[c].resp.status) => ApiErrorRaised(c)

\* C3 as amended: request() returns normally only if the status's leading
\* digit is 2; every other status, once its body is read, raises a
\* DydxApiError carrying the status and the body; a 2xx response returns
\* normally unless response.json() raises on its body (content type that is
\* not JSON, text that is not JSON), and then that exception is raised.
C3_ReturnsOnly2xx_ApiErrorOtherwise ==
    \A c \in Calls :
        Classified(c) =>
            LET resp == calls[c].resp
                unparsable == resp.content /\
                    (resp.ctype # "application/json" \/ resp.body = TextBody)
            IN  /\ calls[c].outcome = "returned" => LeadingDigitIs2(resp.status)
                /\ ~LeadingDigitIs2(resp.status) => ApiErrorRaised(c)
                /\ LeadingDigitIs2(resp.status) =>
                      IF unparsable
                      THEN /\ calls[c].outcome = "raised"
                           /\ calls[c].error.kind \in {"ContentTypeError", "ValueError"}
                      ELSE calls[c].outcome = "returned"

C3_Witness ==
    \E c \in Calls :
        /\ Classified(c) /\ calls[c].resp.status = 404 /\ ApiErrorRaised(c)
        /\ calls[c].error.msg = PyStr(TextBody)

\* C4: a 2xx response with an empty body makes request() return an empty
\* mapping, never None and never a value of another type.
C4_EmptyBodyYieldsEmptyMapping ==
    \A c \in Calls :
        Classified(c) /\ LeadingDigitIs2(calls[c].resp.status)
                      /\ calls[c].resp.body = EmptyBody =>
            calls[c].outcome = "returned" /\ calls[c].result = EmptyMapping

CreateOps == {"create_order", "create_withdrawal", "create_fast_withdrawal"}

\* Slot c holds a call of one of the three signable actions.
Creates(c) == calls[c].op \in CreateOps

\* The call ended in an error of this kind with nothing signed and nothing sent.
RaisedBeforeSigning(c, kinds) ==
    /\ Done(c) /\ calls[c].outcome = "raised" /\ calls[c].error.kind \in kinds
    /\ calls[c].signer_calls = <<>> /\ calls[c].fact_calls = <<>>
    /\ calls[c].sends = 0

\* Both an ISO-8601 expiration and an integer expiration_epoch_seconds are
\* supplied, or neither argument is.
BothOrNeitherSupplied(a) ==
    \/ a.expiration = None /\ a.expiration_epoch_seconds = None
    \/ a.expiration # None /\ a.expiration[1] # <<>>
                           /\ a.expiration_epoch_seconds # None

\* C5: supplying both expiration and expiration_epoch_seconds, or neither,
\* raises before the signer is invoked and before anything is sent, with or
\* without a signature or a stark private key.
C5_BothOrNeitherRaises ==
    \A c \in Calls :
        Creates(c) /\ BothOrNeitherSupplied(calls[c].args) =>
            RaisedBeforeSigning(c, {"ValueError", "Exception"})

\* Exactly one of an ISO-8601 expiration and a non-negative
\* expiration_epoch_seconds is supplied.
ExactlyOneSupplied(a) ==
    \/ a.expiration = None /\ a.expiration_epoch_seconds # None
                           /\ a.expiration_epoch_seconds[1] >= 0
    \/ a.expiration # None /\ a.expiration[1] # <<>>
                           /\ a.expiration_epoch_seconds = None

\* The value posted under a key of the body.
BodyValue(d, key) == d[CHOOSE i \in DOMAIN d : d[i][1] = key][2]

\* C6: with exactly one of expiration and expiration_epoch_seconds (any
\* non-negative integer) supplied, the expiration check passes and the other
\* form is derived: the epoch seconds handed to the signer are those of the
\* ISO expiration posted in the body.
C6_ExactlyOneDerivesTheOther ==
    \A c \in Calls :
        Creates(c) /\ ExactlyOneSupplied(calls[c].args) =>
            /\ calls[c].error.kind # "ValueError"
            /\ calls[c].sends > 0 =>
                  /\ BodyValue(calls[c].data_values, "expiration") # None
                  /\ \A i \in DOMAIN calls[c].signer_calls :
                        calls[c].signer_calls[i].expiration_epoch_seconds =
                            iso_to_epoch_seconds(
                                BodyValue(calls[c].data_values, "expiration")[1])

\* C7: with no stark private key on the client and no signature from the
\* caller, the three signable actions raise before the signer (and the fact
\* computation) is invoked and before anything is sent; with consistent
\* expiration inputs the error is the missing-key Exception, not the
\* ValueError of the expiration check.
C7_MissingKeyRaisesBeforeSigning ==
    \A c \in Calls :
        Creates(c) /\ client.stark_private_key = None
                   /\ calls[c].args.signature = None =>
            /\ RaisedBeforeSigning(c, {"ValueError", "Exception"})
            /\ (calls[c].error.kind = "ValueError")
                  <=> (bool_seq(calls[c].args.expiration)
                          = bool_int(calls[c].args.expiration_epoch_seconds))

C7_Witness ==
    \E c \in Calls :
        /\ calls[c].op = "create_fast_withdrawal"
        /\ client.stark_private_key = None /\ calls[c].args.signature = None
        /\ calls[c].args.expiration = Some(IsoA)
        /\ calls[c].args.expiration_epoch_seconds = None
        /\ RaisedBeforeSigning(c, {"Exception"})

\* A call that went through _private_request.
PrivateSent(c) == calls[c].op \notin {"none", "request"} /\ calls[c].sends > 0

UpperCased == [get |-> "GET", post |-> "POST", put |-> "PUT", delete |-> "DELETE"]

\* C8: the string Private.sign authenticates is the timestamp, the upper-cased
\* method, the request path and the serialized body, in that order, and the
\* body segment is empty (not "{}") when the body is empty.
C8_SignedStringLayout ==
    \A c \in Calls :
        PrivateSent(c) =>
            LET call == calls[c]
            IN  /\ call.message_string =
                      <<call.now_iso_string, UpperCased[call.method]>>
                          \o call.request_path
                          \o (IF call.signed_data = <<>> THEN <<>>
                              ELSE json_stringify(call.signed_data))
                /\ call.data_values = <<>> =>
                      Len(call.message_string) = 2 + Len(call.request_path)

C8_Witness ==
    \E c \in Calls :
        /\ PrivateSent(c) /\ calls[c].op = "get_api_keys"
        /\ calls[c].message_string =
              <<calls[c].now_iso_string, "GET", "/v3", "/", "api-keys">>

\* The items of a dict whose value is not null, in their order.
RECURSIVE WithoutNulls(_)
WithoutNulls(d) ==
    IF d = <<>> THEN <<>>
    ELSE (IF d[1][2] = None THEN <<>> ELSE <<d[1]>>) \o WithoutNulls(Tail(d))

\* The serialized-body segment of the signed string.
BodySegment(call) ==
    SubSeq(call.message_string, 3 + Len(call.request_path), Len(call.message_string))

\* C9: no null-valued field is in the body that is signed or in the body
\* that is sent: what is signed is the serialization of the body without its
\* null-valued items, the others in insertion order, and so is what is sent.
C9_NoNullsSignedOrSent ==
    \A c \in Calls :
        PrivateSent(c) =>
            LET call == calls[c]
                kept == WithoutNulls(call.data_values)
            IN  /\ \A i \in DOMAIN call.signed_data : call.signed_data[i][2] # None
                /\ BodySegment(call) =
                      (IF kept = <<>> THEN <<>> ELSE json_stringify(kept))
                /\ call.data = json_dumps(kept)

C9_Witness ==
    \E c \in Calls :
        /\ PrivateSent(c) /\ calls[c].op = "create_order"
        /\ \E i \in DOMAIN calls[c].data_values : calls[c].data_values[i][2] = None
        /\ Len(calls[c].signed_data) < Len(calls[c].data_values)
        /\ Len(BodySegment(calls[c])) > 2

\* C10: an invocation performs at most one transport send; after a non-2xx
\* response or a transport exception nothing is sent again and the failure
\* is raised to the caller.
C10_AtMostOneSend ==
    \A c \in Calls :
        /\ calls[c].sends <= 1
        /\ Done(c) /\ calls[c].error.kind \in {"DydxApiError", "ClientError"} =>
              calls[c].sends = 1 /\ calls[c].outcome = "raised"

C10_Witness ==
    \E c \in Calls :
        /\ Done(c) /\ calls[c].sends = 1
        /\ calls[c].error.kind = "DydxApiError" /\ calls[c].outcome = "raised"

\* C11: in create_fast_withdrawal the recipient that enters the signed
\* transfer fact is lower-cased: whatever the letter case of to_address, the
\* fact is computed from the recipient value that is sent as toAddress in the
\* request body.
C11_FactRecipientLowerCased ==
    \A c \in Calls :
        calls[c].op = "create_fast_withdrawal" /\ calls[c].sends > 0 =>
            \A i \in DOMAIN calls[c].fact_calls :
                Some(calls[c].fact_calls[i].recipient) =
                    BodyValue(calls[c].data_values, "toAddress")

\* C12: a non-2xx response whose body is empty or is not JSON still ends in
\* a DydxApiError carrying the status: when the body does not parse as JSON
\* the error's msg is the raw response text, and no parse failure is raised
\* in place of the DydxApiError, whatever the content type says.
C12_UnparsableBodyStillApiError ==
    \A c \in Calls :
        /\ Classified(c)
        /\ ~LeadingDigitIs2(calls[c].resp.status)
        /\ calls[c].resp.body \in {EmptyBody, TextBody}
        => /\ calls[c].outcome = "raised"
           /\ calls[c].error.kind = "DydxApiError"
           /\ calls[c].error.status = calls[c].resp.status
           /\ calls[c].resp.body = TextBody => calls[c].error.msg = PyStr(TextBody)

C12_Witness ==
    \E c \in Calls :
        /\ Done(c) /\ calls[c].resp # NoResponse
        /\ calls[c].resp.status = 500 /\ calls[c].resp.body = TextBody
        /\ calls[c].resp.ctype = "application/json"
        /\ calls[c].error.kind = "DydxApiError"
        /\ calls[c].error.msg = PyStr(TextBody)

\* The client's credentials miss an item or hold a secret that does not
\* decode: the padding of a base64 text fills it to a multiple of 4 characters,
\* told here for the model's two secrets.
Decodable(secret) == secret = Secret

Malformed(creds) ==
    \/ creds = None
    \/ \E k \in {"key", "secret", "passphrase"} :
            \A i \in DOMAIN creds[1] : creds[1][i][1] # k
    \/ \E i \in DOMAIN creds[1] :
            creds[1][i][1] = "secret" /\ ~Decodable(creds[1][i][2][1])

\* The calls that reached _private_request: everything before it passed.
ReachedPrivateRequest(c) ==
    /\ calls[c].pc # "idle"
    /\ calls[c].error.kind \notin {"ValueError", "Exception"}

C14_SentBodyIsSignedBody ==
    \A c \in Calls :
        PrivateSent(c) =>
            /\ calls[c].data = BodySegment(calls[c])
            /\ calls[c].method \in {"get", "delete"} => calls[c].data = <<>>

HeaderNames == {"DYDX_SIGNATURE", "DYDX_API_KEY", "DYDX_TIMESTAMP", "DYDX_PASSPHRASE"}

\* C15: for every private request what is signed is what is sent: the
\* DYDX-TIMESTAMP header is the timestamp at the head of the signed string, the
\* signed method is the upper-cased verb of the dispatch, the signed path is
\* the path and query string that follow the host in the URL, and the request
\* carries the four headers DYDX-SIGNATURE (the digest of that signed
\* string), DYDX-API-KEY, DYDX-TIMESTAMP and DYDX-PASSPHRASE.
C15_SignedEnvelopeIsSentEnvelope ==
    \A c \in Calls :
        PrivateSent(c) =>
            LET call == calls[c]
                path == Tail(call.uri)
            IN  /\ call.headers # None
                /\ DOMAIN call.headers[1] = HeaderNames
                /\ call.headers[1].DYDX_TIMESTAMP = call.message_string[1]
                /\ call.headers[1].DYDX_SIGNATURE.hmac_sha256 = call.message_string
                /\ call.headers[1].DYDX_API_KEY # None
                /\ call.headers[1].DYDX_PASSPHRASE # None
                /\ call.message_string[2] = UpperCased[call.method]
                /\ call.uri[1] = Host
                /\ SubSeq(call.message_string, 3, 2 + Len(path)) = path
                /\ SubSeq(call.message_string, 3 + Len(path), Len(call.message_string))
                      = BodySegment(call)

C15_Witness ==
    \E c \in Calls :
        /\ PrivateSent(c) /\ calls[c].op = "cancel_all_orders"
        /\ calls[c].method = "delete"
        /\ calls[c].uri = <<Host, "/v3", "/", "orders", "?", "market", "=", "BTC-USD">>
        /\ calls[c].headers[1].DYDX_TIMESTAMP = calls[c].now_iso_string

\* C16: over any sequence of private requests and close() calls on one
\* client at most one session is ever created: the first access creates it,
\* every request is dispatched on it, close() does not reset it, and a request
\* issued after close() goes out on that closed session, which stays closed and
\* gives no response.
C16_AtMostOneSessionEverCreated ==
    /\ client.sessions_created <= 1
    /\ client.sessions_created = 0 <=> client._session = None
    /\ client._session = None <=> sessions[ClientSession] = "absent"
    /\ \A c \in Calls :
          PrivateSent(c) =>
              /\ client._session = ClientSession
              /\ calls[c].session = ClientSession
              /\ calls[c].session_closed =>
                    /\ sessions[ClientSession] = "closed"
                    /\ calls[c].resp = NoResponse

C16_Witness ==
    \E c \in Calls :
        /\ PrivateSent(c) /\ calls[c].session_closed
        /\ calls[c].session = ClientSession /\ sessions[ClientSession] = "closed"
        /\ client.sessions_created = 1
        /\ Done(c) /\ calls[c].error.kind = "ClientError"

\* The caller supplied a non-empty signature and expiration inputs that pass
\* the check.
SignatureSupplied(a) ==
    /\ a.signature \notin {None, Some("")}
    /\ (a.expiration \in {None, Some(<<>>)})
          # (a.expiration_epoch_seconds \in {None, Some(0)})

\* C17: when the caller supplies a non-empty signature to create_order,
\* create_withdrawal or create_fast_withdrawal, with valid expiration inputs,
\* the signer and the fact computation are not invoked, no stark private key
\* is required (the call does not raise for the lack of one and goes on to the
\* request), and the supplied signature is in the request body unchanged.
C17_SuppliedSignatureIsPosted ==
    \A c \in Calls :
        Creates(c) /\ SignatureSupplied(calls[c].args) =>
            /\ calls[c].signer_calls = <<>>
            /\ calls[c].fact_calls = <<>>
            /\ calls[c].error.kind \notin {"ValueError", "Exception"}
            /\ ~Malformed(client.api_key_credentials) =>
                  /\ calls[c].sends = 1
                  /\ BodyValue(calls[c].data_values, "signature")
                        = calls[c].args.signature

C17_Witness ==
    \E c \in Calls :
        /\ calls[c].op = "create_fast_withdrawal"
        /\ client.stark_private_key = None
        /\ calls[c].args.signature = Some("0x05ab")
        /\ calls[c].sends = 1 /\ calls[c].signer_calls = <<>>
        /\ BodyValue(calls[c].data_values, "signature") = Some("0x05ab")

====
